---- MODULE Spec2Model ----
(***************************************************************************)
(* TinyAgent: the expression evaluator of Flow (core.py) and of            *)
(* TracingFlow (telemetry.py), the node executor, and the asyncio event    *)
(* loop they run on, as one state machine.                                 *)
(*                                                                         *)
(* Token positions are 0-based as in the Python code: the token at Python  *)
(* index i is tokens[i + 1], and a slice is the half-open range            *)
(* [start, end).                                                           *)
(***************************************************************************)
EXTENDS Integers, Sequences, FiniteSets, TLC

(* ------------------------------ bounds -------------------------------- *)

\* longest token vector handed to run
MaxLen == 3
\* largest loop count N of a <N> token
MaxN == 2
\* largest retries value of a registered node
MaxRetries == 2
\* most node executions one run of an input can make
MaxCalls == 6
\* longest built expression, in tokens, that a further operator is applied to
MaxBuilt == 3

(* ------------------------------ tokens -------------------------------- *)

\* the names the enumerated token vectors are written over
Letters == {"A", "B"}
\* nodes whose user function is one of the examples' or a writer-reader of
\* the shared state: generator, reviewer, and two writers
Scripted == {"G", "R", "W", "X"}
Writers == {"W", "X"}
\* nodes whose user function may return either boolean
Free == {"A", "B", "C", "D"}
\* names present in Node._registry
Registered == Free \cup Scripted
\* a bareword that no Node was constructed for
Unregistered == {"U"}
Names == Registered \cup Unregistered

\* the loop markers the lexer's <\d+> alternative produces, by their count
LoopStr == <<"<0>", "<1>", "<2>", "<3>", "<4>", "<5>">>
LoopTokens == {LoopStr[n + 1] : n \in 0..MaxN}
BinOps == {">>", "|", "?", "&"}
Alphabet == Letters \cup Unregistered \cup {"(", ")"} \cup BinOps \cup LoopTokens

\* op.startswith("<")
IsLoop(t) == \E k \in 1..Len(LoopStr) : LoopStr[k] = t
\* int(op[1:-1])
LoopCount(t) == CHOOSE n \in 0..(Len(LoopStr) - 1) : LoopStr[n + 1] = t

\* Prec with `&` binding loosest
PrecParFirst(t) ==
  IF IsLoop(t) THEN 4
  ELSE IF t = ">>" THEN 2
  ELSE IF t = "|" THEN 3
  ELSE IF t = "?" THEN 3
  ELSE 1

\* Flow._P, with every loop marker at 4
Prec(t) ==
  IF IsLoop(t) THEN 4
  ELSE IF t = ">>" THEN 1
  ELSE IF t = "|" THEN 2
  ELSE IF t = "?" THEN 2
  ELSE 3

\* tokens[i] in self._P or tokens[i].startswith("<")
IsOpTok(t) == t \in BinOps \/ IsLoop(t)

\* the scan for the lowest-precedence top-level operator, rightmost on ties;
\* yields -1 when the slice has none
RECURSIVE Scan(_, _, _, _, _, _)
Scan(toks, i, end, depth, min_prec, op_idx) ==
  IF i >= end THEN op_idx
  ELSE LET t == toks[i + 1] IN
    IF t = "(" THEN Scan(toks, i + 1, end, depth + 1, min_prec, op_idx)
    ELSE IF t = ")" THEN Scan(toks, i + 1, end, depth - 1, min_prec, op_idx)
    ELSE IF depth = 0 /\ IsOpTok(t) /\ Prec(t) <= min_prec
      THEN Scan(toks, i + 1, end, depth, Prec(t), i)
    ELSE Scan(toks, i + 1, end, depth, min_prec, op_idx)

FindOp(toks, start, end) == Scan(toks, start, end, 0, 999, -1)

(* ----------------------------- validator ------------------------------ *)

\* The forward pass with a depth counter and an expecting_operand flag;
\* yields "ok", "SyntaxError" or "UnknownNode".
RECURSIVE ValidateFrom(_, _, _, _, _)
ValidateFrom(toks, reg, i, depth, expecting) ==
  IF i > Len(toks)
    THEN IF depth = 0 /\ ~expecting THEN "ok" ELSE "SyntaxError"
  ELSE LET t == toks[i] IN
    IF expecting
      THEN IF t = "(" THEN ValidateFrom(toks, reg, i + 1, depth + 1, TRUE)
           ELSE IF t = ")" \/ IsOpTok(t) THEN "SyntaxError"
           ELSE IF t \in reg THEN ValidateFrom(toks, reg, i + 1, depth, FALSE)
           ELSE "UnknownNode"
      ELSE IF t = ")"
             THEN IF depth = 0 THEN "SyntaxError"
                  ELSE ValidateFrom(toks, reg, i + 1, depth - 1, FALSE)
           ELSE IF t \in BinOps THEN ValidateFrom(toks, reg, i + 1, depth, TRUE)
           ELSE IF IsLoop(t)
             THEN IF LoopCount(t) > 0
                    THEN ValidateFrom(toks, reg, i + 1, depth, TRUE)
                    ELSE "SyntaxError"
           ELSE "SyntaxError"

Validate(toks, reg) == ValidateFrom(toks, reg, 1, 0, TRUE)

(* ------------------------------ grammar ------------------------------- *)

\* The EBNF of the DSL as a descent recognizer over 1-based positions: level
\* 1 is seq, 2 orc, 3 cond, 4 par, 5 loop, and above that atom. Each yields
\* the position after what it consumed from position i, or -1.
IsLevelOp(t, k) ==
  IF k = 1 THEN t = ">>"
  ELSE IF k = 2 THEN t = "|"
  ELSE IF k = 3 THEN t = "?"
  ELSE IF k = 4 THEN t = "&"
  ELSE IsLoop(t) /\ LoopCount(t) >= 1

RECURSIVE ParseLevel(_, _, _)
RECURSIVE ParseTail(_, _, _)
RECURSIVE ParseAtom(_, _)

ParseLevel(toks, i, k) ==
  IF k > 5 THEN ParseAtom(toks, i)
  ELSE LET j == ParseLevel(toks, i, k + 1)
       IN IF j = -1 THEN -1 ELSE ParseTail(toks, j, k)

ParseTail(toks, j, k) ==
  IF j <= Len(toks) /\ IsLevelOp(toks[j], k)
    THEN LET j2 == ParseLevel(toks, j + 1, k + 1)
         IN IF j2 = -1 THEN -1 ELSE ParseTail(toks, j2, k)
    ELSE j

ParseAtom(toks, i) ==
  IF i > Len(toks) THEN -1
  ELSE IF toks[i] \in Names THEN i + 1
  ELSE IF toks[i] = "("
    THEN LET j == ParseLevel(toks, i + 1, 1)
         IN IF j # -1 /\ j <= Len(toks) /\ toks[j] = ")" THEN j + 1 ELSE -1
  ELSE -1

\* the token vector is a sentence of the grammar
Parses(toks) == ParseLevel(toks, 1, 1) = Len(toks) + 1

(* ---------------------------- parse trees ----------------------------- *)

\* a tree is written as its fully parenthesised token vector: a name is
\* itself, a split is ( left op right ), and grouping parentheses add nothing
Split3(l, op, r) == <<"(">> \o l \o <<op>> \o r \o <<")">>

\* the tree the evaluator's recursion walks: split at FindOp, strip the
\* parentheses when there is no top-level operator
RECURSIVE EvalTree(_, _, _)
EvalTree(toks, s, e) ==
  IF s >= e THEN << >>
  ELSE IF e - s = 1 THEN <<toks[s + 1]>>
  ELSE LET i == FindOp(toks, s, e) IN
    IF i = -1 THEN EvalTree(toks, s + 1, e - 1)
    ELSE Split3(EvalTree(toks, s, i), toks[i + 1], EvalTree(toks, i + 1, e))

\* the level of an operator in a grammar: in "ebnf" the five levels seq,
\* orc, cond, par, loop; in "tiers" the four tiers of the precedence table,
\* where `|` and `?` share one
GrammarLevel(g, t) ==
  IF g = "ebnf"
    THEN IF t = ">>" THEN 1 ELSE IF t = "|" THEN 2 ELSE IF t = "?" THEN 3
         ELSE IF t = "&" THEN 4 ELSE 5
    ELSE IF t = ">>" THEN 1 ELSE IF t = "|" THEN 2 ELSE IF t = "?" THEN 2
         ELSE IF t = "&" THEN 3 ELSE 4

Levels(g) == IF g = "ebnf" THEN 5 ELSE 4

NoTree == [j |-> -1, t |-> << >>]

\* the descent parser of a grammar: each level yields the position after
\* what it consumed from position i (1-based) and the tree it built, folding
\* `x op y op z` to the left
RECURSIVE TreeLevel(_, _, _, _)
RECURSIVE TreeTail(_, _, _, _)
RECURSIVE TreeAtom(_, _, _)

TreeLevel(g, toks, i, k) ==
  IF k > Levels(g) THEN TreeAtom(g, toks, i)
  ELSE LET l == TreeLevel(g, toks, i, k + 1)
       IN IF l.j = -1 THEN NoTree ELSE TreeTail(g, toks, l, k)

TreeTail(g, toks, l, k) ==
  IF /\ l.j <= Len(toks)
     /\ IsOpTok(toks[l.j]) /\ GrammarLevel(g, toks[l.j]) = k
     /\ IsLoop(toks[l.j]) => LoopCount(toks[l.j]) >= 1
    THEN LET r == TreeLevel(g, toks, l.j + 1, k + 1)
         IN IF r.j = -1 THEN NoTree
            ELSE TreeTail(g, toks, [j |-> r.j, t |-> Split3(l.t, toks[l.j], r.t)], k)
    ELSE l

TreeAtom(g, toks, i) ==
  IF i > Len(toks) THEN NoTree
  ELSE IF toks[i] \in Names THEN [j |-> i + 1, t |-> <<toks[i]>>]
  ELSE IF toks[i] = "("
    THEN LET in == TreeLevel(g, toks, i + 1, 1)
         IN IF in.j # -1 /\ in.j <= Len(toks) /\ toks[in.j] = ")"
              THEN [j |-> in.j + 1, t |-> in.t] ELSE NoTree
  ELSE NoTree

\* the parse tree of a sentence under grammar g
GrammarTree(g, toks) == TreeLevel(g, toks, 1, 1).t

(* ------------------------------- state -------------------------------- *)

VARIABLES
  tokens,    \* the token vector of the expression handed to run
  mode,      \* "infix": Flow.run; "traced": TracingFlow.run
  registry,  \* Node._registry: name -> [retries, timeout]
  cache,     \* TracingFlow's compiled expressions
  status,    \* "init", "running", "returned", "raised"
  result,    \* the boolean run returned (when status = "returned")
  error,     \* the exception that left run (when status = "raised")
  stack,     \* per task: the chain of evaluator frames, innermost last
  tres,      \* per gather child: "none" until done, then "T" or "F"
  tparent,   \* per gather child: the task awaiting the gather
  ready,     \* the event loop's FIFO of tasks to resume
  cur,       \* the task that holds the event loop
  trace,     \* State.trace: labels <<name, status>>
  ftrace,    \* TracingFlow.trace: labels <<name, status>>
  hist,      \* what the nodes were asked to do, in order, by token position
  data,      \* State._data: key -> value
  lock,      \* State._lock: the task that holds it, or NoTask
  thread_safe, \* State's thread_safe flag
  expr       \* the Expr object the Node/Expr operators have built

vars == <<tokens, mode, registry, cache, status, result, error, stack, tres,
          tparent, ready, cur, trace, ftrace, hist, data, lock, thread_safe,
          expr>>

NoTask == <<-1, -1>>
Root == <<0, Len(tokens)>>
Slices == (0..Len(tokens)) \X (0..Len(tokens))

\* a frame of _eval_infix / _eval_traced: its slice, where it stands, the
\* operator index it split at, the loop iterations finished, the value the
\* last awaited sub-evaluation gave, and the executor's attempt counter
NewFrame(s, e) ==
  [s |-> s, e |-> e, pc |-> "start", op |-> -1, it |-> 0, rv |-> FALSE, att |-> 0]

Tok(i) == tokens[i + 1]
B2S(v) == IF v THEN "T" ELSE "F"

\* every token vector of at most MaxLen tokens
RECURSIVE SeqsUpTo(_)
SeqsUpTo(n) ==
  IF n = 0 THEN {<< >>}
  ELSE LET shorter == SeqsUpTo(n - 1)
       IN shorter \cup {Append(q, t) : q \in {x \in shorter : Len(x) = n - 1}, t \in Alphabet}

\* longer expressions of the spec's scenarios
Scenarios ==
  { <<"A", ">>", "B", ">>", "A">>,
    <<"(", "A", "&", "B", ")", ">>", "A">>,
    <<"(", "A", "&", "B", ")", "<2>", "B">>,
    <<"(", "A", "&", "B", ")", ">>", "C">>,
    <<"A", ">>", "(", "B", ">>", "C", ")">>,
    <<"(", "A", ">>", "B", ")", ">>", "C">>,
    <<"A", ">>", "(", "B", "?", "C", "|", "D", ")">> }

\* the operators a chain `A op B op C` is written with
ChainOps == BinOps \cup {LoopStr[2], LoopStr[3]}

\* every chain of three nodes and two operators
Chains == {<<"A", o1, "B", o2, "C">> : o1 \in ChainOps, o2 \in ChainOps}

\* the expressions over the examples' nodes and the writers
ScriptInputs == { <<"G", "<5>", "R">>, <<"W", "&", "X">> }

\* the most node executions the evaluation of the slice [s, e) can make: the
\* evaluator's recursion with every operand evaluated and every loop run to
\* its count
RECURSIVE Cost(_, _, _)
Cost(toks, s, e) ==
  IF s >= e THEN 0
  ELSE IF e - s = 1 THEN (IF toks[s + 1] \in Registered THEN 1 ELSE 0)
  ELSE LET i == FindOp(toks, s, e) IN
    IF i = -1 THEN Cost(toks, s + 1, e - 1)
    ELSE IF IsLoop(toks[i + 1])
      THEN LoopCount(toks[i + 1]) * (Cost(toks, s, i) + Cost(toks, i + 1, e))
    ELSE Cost(toks, s, i) + Cost(toks, i + 1, e)

Inputs ==
  {q \in SeqsUpTo(MaxLen) \cup Scenarios \cup Chains : Cost(q, 0, Len(q)) <= MaxCalls}

\* a node as constructed: its retries, its timeout ("none" for None, "zero"
\* for 0, "pos" for a positive number of seconds), and whether its user
\* function can raise
NodeCfgs == [retries : 0..MaxRetries, timeout : {"none", "pos"}, raises : BOOLEAN]

\* `if self._timeout`: None and 0 are both falsy
HasTimeout(cfg) == cfg.timeout = "pos"

\* a node with the constructor's defaults around a function that only
\* returns a boolean
Plain == [retries |-> 0, timeout |-> "none", raises |-> FALSE]

\* the expressions run with retrying, timed and raising nodes
RetryInputs == { <<"A">>, <<"A", "|", "B">>, <<"A", "&", "B">> }

\* the runs: every input over plain nodes and an unsynchronized State, the
\* retry inputs over every node configuration, and the scripted inputs over
\* both kinds of State
Runs ==
  {[tokens |-> q, cfg |-> Plain, safe |-> FALSE] : q \in Inputs}
    \cup {[tokens |-> q, cfg |-> c, safe |-> FALSE] : q \in RetryInputs, c \in NodeCfgs}
    \cup {[tokens |-> q, cfg |-> Plain, safe |-> b] : q \in ScriptInputs, b \in BOOLEAN}

\* State(): no key is set, the lock is free
NoData == [k \in {} |-> 0]

\* what str() of an object expression gives, as tokens, next to the tree of
\* the Python expression that built it; a Node stands for itself
Operand(a) == [isNode |-> TRUE, str |-> <<a>>, tree |-> <<a>>]

\* no expression object: run is handed a string
NoExpr == [isNode |-> FALSE, str |-> << >>, tree |-> << >>]

\* everything of the state but the run's input
InitRest ==
  /\ data = NoData
  /\ lock = NoTask
  /\ mode \in {"infix", "traced"}
  /\ cache = {}
  /\ status = "init"
  /\ result = FALSE
  /\ error = "none"
  /\ stack = [t \in Slices |-> << >>]
  /\ tres = [t \in Slices |-> "none"]
  /\ tparent = [t \in Slices |-> NoTask]
  /\ ready = << >>
  /\ cur = NoTask
  /\ trace = << >>
  /\ ftrace = << >>
  /\ hist = << >>

Init ==
  /\ \E r \in Runs :
       /\ tokens = r.tokens
       /\ registry = [n \in Registered |-> r.cfg]
       /\ thread_safe = r.safe
  /\ expr = NoExpr
  /\ InitRest

(* --------------------------- operator rules --------------------------- *)

\* NeedRight without the short-circuit of `|`
NeedRightAlways(op, l) == IF op = "|" THEN TRUE ELSE op = ">>" \/ l

\* NeedRight with `?` taking the branch `|` takes
NeedRightCondAsOr(op, l) == IF op = ">>" THEN TRUE ELSE IF op = "&" THEN l ELSE ~l

\* NeedRight with `>>` going on only after a failure
NeedRightSeqOnFail(op, l) == IF op = "|" \/ op = ">>" THEN ~l ELSE l

\* whether the operand right of a binary operator is evaluated, given the
\* left one's result
NeedRight(op, l) ==
  IF op = ">>" THEN TRUE
  ELSE IF op = "|" THEN ~l
  ELSE l

\* SkipValue that is false whatever the left operand gave
SkipValueFalse(op, l) == FALSE

\* the value of a binary operator whose right operand was not evaluated
SkipValue(op, l) == IF op = "?" THEN FALSE ELSE l

\* whether `&` fans out with asyncio.gather
Gathers(m) == m = "traced"

\* whether an iteration of <N> ends the loop on the left operand's result
LoopBreaksOnLeft(m, l) == m = "infix" /\ ~l

\* the value of a <N> loop whose last right-operand result was `last`
LoopValue(m, last) == IF m = "infix" THEN TRUE ELSE last

(* ------------------------------ plumbing ------------------------------ *)

Top == stack[cur][Len(stack[cur])]
Stepping == status = "running" /\ cur # NoTask /\ stack[cur] # << >>
At(pc) == Stepping /\ Top.pc = pc

\* the current frame becomes f and awaits the evaluation of [s, e)
Call(f, s, e) ==
  stack' = [stack EXCEPT
              ![cur] = Append([@ EXCEPT ![Len(@)] = f], NewFrame(s, e))]

\* the children of the gather frame f
LeftTask(f) == <<f.s, f.op>>
RightTask(f) == <<f.op + 1, f.e>>

\* the current frame returns v to its awaiter: the frame below it, the
\* gather that spawned its task, or the caller of run; joined is tres with
\* the results this frame has consumed taken out
ReturnWith(v, joined) ==
  LET rest == SubSeq(stack[cur], 1, Len(stack[cur]) - 1) IN
  IF rest # << >>
    THEN /\ stack' = [stack EXCEPT ![cur] = [rest EXCEPT ![Len(rest)].rv = v]]
         /\ tres' = joined
         /\ UNCHANGED <<ready, cur, status, result>>
  ELSE IF cur = Root
    THEN /\ stack' = [stack EXCEPT ![cur] = << >>]
         /\ tres' = joined
         /\ status' = "returned"
         /\ result' = v
         /\ cur' = NoTask
         /\ UNCHANGED ready
  ELSE LET p == tparent[cur]
           g == stack[p][Len(stack[p])]
           sib == IF cur = LeftTask(g) THEN RightTask(g) ELSE LeftTask(g)
       IN /\ stack' = [stack EXCEPT ![cur] = << >>]
          /\ tres' = [joined EXCEPT ![cur] = B2S(v)]
          /\ ready' = IF tres[sib] # "none" THEN Append(ready, p) ELSE ready
          /\ cur' = NoTask
          /\ UNCHANGED <<status, result>>

Return(v) == ReturnWith(v, tres)

\* Log that writes no record for a timed-out attempt
LogDropsTimeout(name, st) ==
  IF st = "TIMEOUT" THEN UNCHANGED <<trace, ftrace>>
  ELSE IF mode = "infix"
    THEN trace' = Append(trace, <<name, st>>) /\ UNCHANGED ftrace
    ELSE ftrace' = Append(ftrace, <<name, st>>) /\ UNCHANGED trace

\* Log that writes every record to State.trace
LogToState(name, st) ==
  trace' = Append(trace, <<name, st>>) /\ UNCHANGED ftrace

\* the executor's record of one attempt, in the sink of the evaluator in use
Log(name, st) ==
  IF mode = "infix"
    THEN trace' = Append(trace, <<name, st>>) /\ UNCHANGED ftrace
    ELSE ftrace' = Append(ftrace, <<name, st>>) /\ UNCHANGED trace

Ev(kind, pos, val) == [ev |-> kind, pos |-> pos, val |-> val]

(* -------------------------------- run --------------------------------- *)

Fixed == <<tokens, mode, registry, cache, error, tparent, thread_safe, expr>>
Store == <<data, lock>>
Quiet == <<trace, ftrace, hist>>

Enter ==
  /\ status' = "running"
  /\ stack' = [stack EXCEPT ![Root] = <<NewFrame(0, Len(tokens))>>]
  /\ cur' = Root

\* Flow.run: tokenize, evaluate
RunInfix ==
  /\ status = "init" /\ mode = "infix"
  /\ Enter
  /\ UNCHANGED <<tokens, mode, registry, cache, result, error, tres, tparent,
                 ready, trace, ftrace, hist, Store, thread_safe, expr>>

\* TracingFlow.run on an expression that validates: cache, evaluate
RunTraced ==
  /\ status = "init" /\ mode = "traced"
  /\ Validate(tokens, DOMAIN registry) = "ok"
  /\ cache' = cache \cup {tokens}
  /\ Enter
  /\ UNCHANGED <<tokens, mode, registry, result, error, tres, tparent, ready,
                 trace, ftrace, hist, Store, thread_safe, expr>>

\* TracingFlow.run on an expression the validator rejects
RunRejected ==
  /\ status = "init" /\ mode = "traced"
  /\ Validate(tokens, DOMAIN registry) # "ok"
  /\ status' = "raised"
  /\ error' = Validate(tokens, DOMAIN registry)
  /\ UNCHANGED <<tokens, mode, registry, cache, result, stack, tres, tparent,
                 ready, cur, trace, ftrace, hist, Store, thread_safe, expr>>

(* ----------------------------- evaluator ------------------------------ *)

\* if start >= end: return False
EvalEmpty ==
  /\ At("start") /\ Top.s >= Top.e
  /\ Return(FALSE)
  /\ UNCHANGED <<Fixed, Store, Quiet>>

\* a single token that is not in the registry: False
EvalUnknown ==
  /\ At("start") /\ Top.e - Top.s = 1
  /\ Tok(Top.s) \notin DOMAIN registry
  /\ Return(FALSE)
  /\ UNCHANGED <<Fixed, Store, Quiet>>

\* a single token that names a node: Node.execute / _execute_traced begins
EvalNode ==
  /\ At("start") /\ Top.e - Top.s = 1
  /\ Tok(Top.s) \in DOMAIN registry
  /\ stack' = [stack EXCEPT ![cur][Len(stack[cur])].pc = "exec"]
  /\ hist' = Append(hist, Ev("call", Top.s, "-"))
  /\ UNCHANGED <<Fixed, Store, trace, ftrace, tres, ready, cur, status, result>>

\* no top-level operator: recurse on [start + 1, end - 1)
EvalParen ==
  /\ At("start") /\ Top.e - Top.s > 1
  /\ FindOp(tokens, Top.s, Top.e) = -1
  /\ Call([Top EXCEPT !.pc = "paren"], Top.s + 1, Top.e - 1)
  /\ UNCHANGED <<Fixed, Store, Quiet, tres, ready, cur, status, result>>

\* the split is at a <N>: no iteration when N = 0, else the first left operand
EvalLoop ==
  /\ At("start") /\ Top.e - Top.s > 1
  /\ LET i == FindOp(tokens, Top.s, Top.e) IN
       /\ i # -1 /\ IsLoop(Tok(i))
       /\ IF LoopCount(Tok(i)) = 0
            THEN /\ Return(LoopValue(mode, FALSE))
            ELSE /\ Call([Top EXCEPT !.pc = "loopL", !.op = i, !.it = 0], Top.s, i)
                 /\ UNCHANGED <<tres, ready, cur, status, result>>
  /\ UNCHANGED <<Fixed, Store, Quiet>>

\* the split is at `&` and the evaluator gathers: both operands become tasks,
\* left first, and this task waits for the join
EvalGather ==
  /\ At("start") /\ Top.e - Top.s > 1
  /\ LET i == FindOp(tokens, Top.s, Top.e)
         g == [Top EXCEPT !.pc = "gather", !.op = i]
     IN /\ i # -1 /\ Tok(i) = "&" /\ Gathers(mode)
        /\ stack' = [stack EXCEPT
                       ![cur] = [@ EXCEPT ![Len(@)] = g],
                       ![LeftTask(g)] = <<NewFrame(g.s, i)>>,
                       ![RightTask(g)] = <<NewFrame(i + 1, g.e)>>]
        /\ tparent' = [tparent EXCEPT ![LeftTask(g)] = cur, ![RightTask(g)] = cur]
        /\ ready' = ready \o <<LeftTask(g), RightTask(g)>>
        /\ cur' = NoTask
  /\ UNCHANGED <<tokens, mode, registry, cache, error, thread_safe, expr, Quiet, Store,
                 tres, status, result>>

\* any other split: evaluate the left operand first
EvalLeft ==
  /\ At("start") /\ Top.e - Top.s > 1
  /\ LET i == FindOp(tokens, Top.s, Top.e) IN
       /\ i # -1 /\ ~IsLoop(Tok(i))
       /\ ~(Tok(i) = "&" /\ Gathers(mode))
       /\ Call([Top EXCEPT !.pc = "left", !.op = i], Top.s, i)
  /\ UNCHANGED <<Fixed, Store, Quiet, tres, ready, cur, status, result>>

\* the parenthesised slice returned
AfterParen ==
  /\ At("paren")
  /\ Return(Top.rv)
  /\ UNCHANGED <<Fixed, Store, Quiet>>

\* the left operand of >>, &, ? or | returned
AfterLeft ==
  /\ At("left")
  /\ IF NeedRight(Tok(Top.op), Top.rv)
       THEN /\ Call([Top EXCEPT !.pc = "right"], Top.op + 1, Top.e)
            /\ UNCHANGED <<tres, ready, cur, status, result>>
       ELSE Return(SkipValue(Tok(Top.op), Top.rv))
  /\ UNCHANGED <<Fixed, Store, Quiet>>

\* the right operand of >>, &, ? or | returned: its value is the operator's
AfterRight ==
  /\ At("right")
  /\ Return(Top.rv)
  /\ UNCHANGED <<Fixed, Store, Quiet>>

\* the left operand of a loop iteration returned
AfterLoopLeft ==
  /\ At("loopL")
  /\ IF LoopBreaksOnLeft(mode, Top.rv)
       THEN Return(LoopValue(mode, FALSE))
       ELSE /\ Call([Top EXCEPT !.pc = "loopR"], Top.op + 1, Top.e)
            /\ UNCHANGED <<tres, ready, cur, status, result>>
  /\ UNCHANGED <<Fixed, Store, Quiet>>

\* the right operand of a loop iteration returned
AfterLoopRight ==
  /\ At("loopR")
  /\ IF Top.rv \/ Top.it + 1 >= LoopCount(Tok(Top.op))
       THEN Return(LoopValue(mode, Top.rv))
       ELSE /\ Call([Top EXCEPT !.pc = "loopL", !.it = @ + 1], Top.s, Top.op)
            /\ UNCHANGED <<tres, ready, cur, status, result>>
  /\ UNCHANGED <<Fixed, Store, Quiet>>

\* both gathered operands are done and this task was resumed:
\* left_result and right_result
AfterGather ==
  /\ At("gather")
  /\ LET l == tres[LeftTask(Top)]
         r == tres[RightTask(Top)]
     IN /\ l # "none" /\ r # "none"
        /\ ReturnWith((l = "T") /\ (r = "T"),
                      [tres EXCEPT ![LeftTask(Top)] = "none",
                                   ![RightTask(Top)] = "none"])
  /\ UNCHANGED <<Fixed, Store, Quiet>>

(* --------------------------- node executor ---------------------------- *)

Node == Tok(Top.s)

\* Attempts with one attempt too many
AttemptsOneMore(r) == r + 2

\* Attempts with every attempt allowed twice
AttemptsTwice(r) == 2 * r + 2

\* how many attempts one execution may make: range(self._retries + 1)
Attempts(r) == r + 1
SetPc(pc) == stack' = [stack EXCEPT ![cur][Len(stack[cur])].pc = pc]

\* range(retries + 1) has another attempt: the user function is called
ExecAttempt ==
  /\ At("exec") /\ Top.att < Attempts(registry[Node].retries)
  /\ SetPc("body")
  /\ hist' = Append(hist, Ev("try", Top.s, "-"))
  /\ UNCHANGED <<Fixed, Store, trace, ftrace, tres, ready, cur, status, result>>

\* range(retries + 1) is exhausted: return False
ExecExhausted ==
  /\ At("exec") /\ Top.att >= Attempts(registry[Node].retries)
  /\ hist' = Append(hist, Ev("ret", Top.s, "F"))
  /\ Return(FALSE)
  /\ UNCHANGED <<Fixed, Store, trace, ftrace>>

\* the user function awaits something (a writer: between its set and its
\* get): the task lets go of the event loop
BodySuspend ==
  /\ (At("body") /\ Node \in Free) \/ At("wrote")
  /\ SetPc("susp")
  /\ cur' = NoTask
  /\ UNCHANGED <<Fixed, Store, Quiet, tres, ready, status, result>>

\* what a suspended user function waits for (a timer, I/O, the timeout)
\* happens: its task is queued for resumption
BodyWake(t) ==
  /\ status = "running" /\ cur = NoTask
  /\ stack[t] # << >> /\ stack[t][Len(stack[t])].pc = "susp"
  /\ stack' = [stack EXCEPT ![t][Len(stack[t])].pc = "woken"]
  /\ ready' = Append(ready, t)
  /\ UNCHANGED <<Fixed, Store, Quiet, tres, cur, status, result>>

\* the event loop resumes the task at the head of its queue
Dispatch ==
  /\ status = "running" /\ cur = NoTask /\ ready # << >>
  /\ cur' = Head(ready)
  /\ ready' = Tail(ready)
  /\ UNCHANGED <<Fixed, Store, Quiet, stack, tres, status, result>>

\* the user function returns r: log name:OK, return bool(r)
BodyOK(r) ==
  /\ At("body") \/ At("woken")
  /\ Node \in Free
  /\ Log(Node, "OK")
  /\ hist' = Append(hist, Ev("ret", Top.s, B2S(r)))
  /\ Return(r)
  /\ UNCHANGED <<Fixed, Store>>

\* the user function raises: log name:ERR(kind), next attempt
BodyError ==
  /\ At("body") \/ At("woken")
  /\ registry[Node].raises
  /\ Log(Node, "ERR")
  /\ stack' = [stack EXCEPT ![cur][Len(stack[cur])].pc = "exec",
                            ![cur][Len(stack[cur])].att = @ + 1]
  /\ UNCHANGED <<Fixed, Store, hist, tres, ready, cur, status, result>>

\* wait_for gives up on a suspended user function: log name:TIMEOUT, next
\* attempt
BodyTimeout ==
  /\ At("woken") /\ HasTimeout(registry[Node])
  /\ Log(Node, "TIMEOUT")
  /\ stack' = [stack EXCEPT ![cur][Len(stack[cur])].pc = "exec",
                            ![cur][Len(stack[cur])].att = @ + 1]
  /\ UNCHANGED <<Fixed, Store, hist, tres, ready, cur, status, result>>

(* ---------------------------- shared state ---------------------------- *)

\* State.get that ignores what was set
StateGetDefault(d, key, default) == default

\* State.get: self._data.get(key, default)
StateGet(d, key, default) == IF key \in DOMAIN d THEN d[key] ELSE default

\* State.set that keeps the value of a key already set
StateSetOnce(d, key, v) ==
  [x \in DOMAIN d \cup {key} |-> IF x \in DOMAIN d THEN d[x] ELSE v]

\* State.set: self._data[key] = value
StateSet(d, key, v) ==
  [x \in DOMAIN d \cup {key} |-> IF x = key THEN v ELSE d[x]]

\* `async with self._lock` is entered: the lock is taken when the State is
\* thread_safe; a free lock is taken without giving up the event loop
Acquire == /\ lock = NoTask
           /\ lock' = IF thread_safe THEN cur ELSE NoTask

\* generator: count = get("count", 0); set("count", count + 1);
\* set("content", ...); return count < 2. Each get and set takes and frees
\* the lock within the step.
BodyGenerator ==
  /\ At("body") /\ Node = "G" /\ lock = NoTask
  /\ LET count == StateGet(data, "count", 0) IN
       /\ data' = StateSet(StateSet(data, "count", count + 1), "content", count + 1)
       /\ hist' = Append(hist, Ev("ret", Top.s, B2S(count < 2)))
       /\ Return(count < 2)
  /\ Log(Node, "OK")
  /\ UNCHANGED <<Fixed, lock>>

\* reviewer: count = get("count"); return count >= 2. With no count set
\* the comparison with None raises and the attempt ends as an ERR.
BodyReviewer ==
  /\ At("body") /\ Node = "R" /\ lock = NoTask
  /\ IF "count" \in DOMAIN data
       THEN LET count == StateGet(data, "count", 0) IN
            /\ Log(Node, "OK")
            /\ hist' = Append(hist, Ev("ret", Top.s, B2S(count >= 2)))
            /\ Return(count >= 2)
       ELSE /\ Log(Node, "ERR")
            /\ stack' = [stack EXCEPT ![cur][Len(stack[cur])].pc = "exec",
                                      ![cur][Len(stack[cur])].att = @ + 1]
            /\ UNCHANGED <<hist, tres, ready, cur, status, result>>
  /\ UNCHANGED <<Fixed, Store>>

\* a writer calls set("k", its name): the critical section is entered
BodySetEnter ==
  /\ At("body") /\ Node \in Writers
  /\ Acquire
  /\ SetPc("setting")
  /\ UNCHANGED <<Fixed, Quiet, data, tres, ready, cur, status, result>>

\* self._data[key] = value, and the lock is freed
BodySetExit ==
  /\ At("setting")
  /\ data' = StateSet(data, "k", Node)
  /\ lock' = NoTask
  /\ hist' = Append(hist, Ev("set", Top.s, Node))
  /\ SetPc("wrote")
  /\ UNCHANGED <<Fixed, trace, ftrace, tres, ready, cur, status, result>>

\* the writer calls get("k"): the critical section is entered
BodyGetEnter ==
  /\ At("wrote") \/ (At("woken") /\ Node \in Writers)
  /\ Acquire
  /\ SetPc("getting")
  /\ UNCHANGED <<Fixed, Quiet, data, tres, ready, cur, status, result>>

\* return self._data.get(key), and the lock is freed; the writer returns True
BodyGetExit ==
  /\ At("getting")
  /\ lock' = NoTask
  /\ hist' = hist \o <<Ev("get", Top.s, StateGet(data, "k", "none")),
                        Ev("ret", Top.s, "T")>>
  /\ Log(Node, "OK")
  /\ Return(TRUE)
  /\ UNCHANGED <<Fixed, data>>

(* ------------------------------- system ------------------------------- *)

Next ==
  \/ RunInfix
  \/ RunTraced
  \/ RunRejected
  \/ EvalEmpty
  \/ EvalUnknown
  \/ EvalNode
  \/ EvalParen
  \/ EvalLoop
  \/ EvalGather
  \/ EvalLeft
  \/ AfterParen
  \/ AfterLeft
  \/ AfterRight
  \/ AfterLoopLeft
  \/ AfterLoopRight
  \/ AfterGather
  \/ ExecAttempt
  \/ ExecExhausted
  \/ BodySuspend
  \/ \E t \in Slices : BodyWake(t)
  \/ Dispatch
  \/ \E r \in BOOLEAN : BodyOK(r)
  \/ BodyError
  \/ BodyTimeout
  \/ BodyGenerator
  \/ BodyReviewer
  \/ BodySetEnter
  \/ BodySetExit
  \/ BodyGetEnter
  \/ BodyGetExit

Spec == Init /\ [][Next]_vars

\* the event loop keeps running what can run, node bodies that suspend are
\* resumed, and every node body comes to an end
SpecLive == Spec /\ WF_vars(Next)

(* ------------------------- node construction -------------------------- *)

\* the retries and timeout arguments a Node is constructed with
CtorRetries == {-1, 0, 1}
CtorTimeouts == {"none", "zero", "pos"}

\* Node.__init__(name, fn, timeout, retries): the arguments are stored as
\* given and the node replaces whatever the registry held under its name
NodeInit(n, r, t) ==
  /\ status = "init"
  /\ registry' = [registry EXCEPT ![n].retries = r, ![n].timeout = t]
  /\ UNCHANGED <<tokens, mode, cache, status, result, error, stack, tres,
                 tparent, ready, cur, trace, ftrace, hist, data, lock,
                 thread_safe, expr>>

\* expressions run after nodes were constructed anew
ConfigInputs ==
  { << >>, <<"U">>, <<"A">>, <<"(", "A", ")">>, <<"A", "|", "B">>,
    <<"A", "&", "B">>, <<"A", "<2>", "B">>, <<"G", "<5>", "R">>,
    <<"W", "&", "X">> }

InitConfig ==
  /\ Init
  /\ tokens \in ConfigInputs
  /\ registry["A"].raises => tokens = <<"A">>

NextConfig ==
  \/ Next
  \/ \E n \in Letters, r \in CtorRetries, t \in CtorTimeouts : NodeInit(n, r, t)

SpecConfig == InitConfig /\ [][NextConfig]_vars

(* ------------------------ expression builder -------------------------- *)

\* Node.__rshift__, __and__, __or__, __xor__:
\* Expr(f"{self.name} OP {other_name}")
NodeOp(a, op, y) ==
  [isNode |-> FALSE,
   str |-> <<a, op>> \o y.str,
   tree |-> Split3(<<a>>, op, y.tree)]

\* Expr.__rshift__, __and__, __or__, __xor__, loop:
\* Expr(f"({self._expr}) OP {other.name or other._expr}")
ExprOp(x, op, y) ==
  [isNode |-> FALSE,
   str |-> <<"(">> \o x.str \o <<")", op>> \o y.str,
   tree |-> Split3(x.tree, op, y.tree)]

\* the right-hand operands: a Node, or the Expr of two Nodes
Operands ==
  {Operand(a) : a \in Letters}
    \cup {NodeOp(a, op, Operand(b)) : a \in Letters, op \in BinOps, b \in Letters}

\* node OP y, for ^ written with the token `?`
BuildFromNode(op, y) ==
  /\ status = "init" /\ expr.isNode
  /\ expr' = NodeOp(expr.str[1], op, y)
  /\ UNCHANGED <<tokens, mode, registry, cache, status, result, error, stack,
                 tres, tparent, ready, cur, trace, ftrace, hist, data, lock,
                 thread_safe>>

\* expr OP y and expr.loop(n, y)
BuildFromExpr(op, y) ==
  /\ status = "init" /\ ~expr.isNode
  /\ expr # NoExpr /\ Len(expr.str) <= MaxBuilt
  /\ expr' = ExprOp(expr, op, y)
  /\ UNCHANGED <<tokens, mode, registry, cache, status, result, error, stack,
                 tres, tparent, ready, cur, trace, ftrace, hist, data, lock,
                 thread_safe>>

\* the registered nodes, before any operator is applied to one
InitBuild ==
  /\ tokens = << >>
  /\ registry = [n \in Registered |-> Plain]
  /\ thread_safe = FALSE
  /\ expr \in {Operand(a) : a \in Letters}
  /\ InitRest

NextBuild ==
  \/ \E op \in BinOps, y \in Operands : BuildFromNode(op, y)
  \/ \E op \in BinOps \cup LoopTokens, y \in Operands : BuildFromExpr(op, y)

SpecBuild == InitBuild /\ [][NextBuild]_vars

(* -------------------------- reading the run --------------------------- *)

\* how often the node at token position pos was executed
CallsAt(pos) ==
  Cardinality({k \in 1..Len(hist) : hist[k].ev = "call" /\ hist[k].pos = pos})

\* what the executions of the node at pos returned, in order
RetsAt(pos) == SelectSeq(hist, LAMBDA h : h.ev = "ret" /\ h.pos = pos)

\* what the last finished execution of the node at pos returned
LastRet(pos) ==
  IF RetsAt(pos) = << >> THEN "none" ELSE RetsAt(pos)[Len(RetsAt(pos))].val

\* the expression is `a op b` for registered nodes a and b
Binary(op) ==
  /\ Len(tokens) = 3
  /\ tokens[1] \in Registered /\ tokens[2] = op /\ tokens[3] \in Registered

Returned == status = "returned"

\* the token positions of the nodes executed, in the order of their calls
CallSeq ==
  LET calls == SelectSeq(hist, LAMBDA h : h.ev = "call")
  IN [k \in 1..Len(calls) |-> calls[k].pos]

\* every execution finished so far returned true
AllSucceeded == \A k \in 1..Len(hist) : hist[k].ev = "ret" => hist[k].val = "T"

(* ------------------------------- claims ------------------------------- *)

\* C1: in `A >> B`, once A has yielded false, B is never executed and the run
\* returns false.
C1_SequenceShortCircuit ==
  (Binary(">>") /\ LastRet(0) = "F") =>
    /\ CallsAt(2) = 0
    /\ Returned => result = FALSE

\* C2: a run of `A & B` executes both A and B, whatever A yields, and
\* returns true iff both returned true.
C2_ParallelBoth ==
  (Binary("&") /\ Returned) =>
    /\ CallsAt(0) = 1 /\ CallsAt(2) = 1
    /\ result = (LastRet(0) = "T" /\ LastRet(2) = "T")

\* the node at pos has been executed and that execution has not returned
Busy(pos) == CallsAt(pos) > Len(RetsAt(pos))

\* the evaluation of the slice [s, e) exists: a task or a frame holds it
Launched(s, e) ==
  \E t \in Slices : \E k \in 1..Len(stack[t]) :
    stack[t][k].s = s /\ stack[t][k].e = e

\* C3: in `A & B` the two branches run concurrently: B does not wait for A,
\* so whenever A has started and not completed, the evaluation of B has
\* been launched too (it runs, or it is a task of the event loop that can
\* start before A completes).
C3_ParallelConcurrent ==
  (Binary("&") /\ Busy(0)) => (Launched(2, 3) \/ CallsAt(2) > 0)

\* C4: in `A | B`, B is executed only after A yielded false and at most
\* once; the run returns true without executing B when A yielded true, and
\* returns what the one execution of B returned when A yielded false.
C4_FallbackShortCircuit ==
  Binary("|") =>
    /\ CallsAt(2) <= 1
    /\ CallsAt(2) = 1 => LastRet(0) = "F"
    /\ Returned =>
         IF LastRet(0) = "T"
           THEN result = TRUE /\ CallsAt(2) = 0
           ELSE CallsAt(2) = 1 /\ result = (LastRet(2) = "T")

\* C4 witness: a run of `A | B` in which A yielded false, B ran once and
\* its true became the result.
C4_Witness ==
  /\ Binary("|") /\ Returned
  /\ LastRet(0) = "F" /\ CallsAt(2) = 1 /\ LastRet(2) = "T" /\ result = TRUE

\* C5: in `A ? B`, B is executed only after A completed with true, never
\* when A yielded false, and the run returns A's result AND B's result.
C5_Conditional ==
  Binary("?") =>
    /\ CallsAt(2) <= 1
    /\ CallsAt(2) = 1 => LastRet(0) = "T"
    /\ Returned =>
         /\ result = (LastRet(0) = "T" /\ LastRet(2) = "T")
         /\ LastRet(0) = "F" => CallsAt(2) = 0
         /\ LastRet(0) = "T" => CallsAt(2) = 1

\* C5 witness: a run of `A ? B` in which A yielded true and B, executed
\* after it, yielded false, so the run returned false.
C5_Witness ==
  /\ Binary("?") /\ Returned
  /\ LastRet(0) = "T" /\ CallsAt(2) = 1 /\ LastRet(2) = "F" /\ result = FALSE

\* the expression is `a <N> b` for registered nodes a and b and N >= 1
LoopExpr ==
  /\ Len(tokens) = 3
  /\ tokens[1] \in Registered /\ tokens[3] \in Registered
  /\ IsLoop(tokens[2]) /\ LoopCount(tokens[2]) >= 1

LoopN == LoopCount(tokens[2])

\* B's results so far are falses, with at most a final true
FalsesThenTrue(rets) ==
  \A k \in 1..Len(rets) : rets[k].val = "T" => k = Len(rets)

\* C6: `A <N> B` executes B at most N times, never again after B returned
\* true, and stops only when B returned true or B has been executed N times:
\* B is executed exactly k times when it first succeeds on iteration k <= N,
\* whatever A returned.
C6_LoopCount ==
  LoopExpr =>
    /\ CallsAt(2) <= LoopN
    /\ FalsesThenTrue(RetsAt(2))
    /\ LastRet(2) = "T" => CallsAt(2) = Len(RetsAt(2))
    /\ Returned => (LastRet(2) = "T" \/ Len(RetsAt(2)) = LoopN)

\* C7: the value of `A <N> B` is what B returned on the last iteration
\* executed: true when B succeeded, false when the N iterations ran out.
C7_LoopValue ==
  (LoopExpr /\ Returned /\ RetsAt(2) # << >>) => result = (LastRet(2) = "T")

\* C8: every iteration of `A <N> B` evaluates A and then B, whatever A
\* yielded: B starts only after A's execution of that iteration returned,
\* and a finished loop has executed B as often as A.
C8_LoopShape ==
  LoopExpr =>
    /\ CallsAt(2) <= Len(RetsAt(0))
    /\ CallsAt(0) <= CallsAt(2) + 1
    /\ Returned => CallsAt(2) = CallsAt(0)

\* how often nodes named n were executed
NameCalls(n) ==
  Cardinality({k \in 1..Len(hist) : hist[k].ev = "call" /\ Tok(hist[k].pos) = n})

\* how many name:OK records the executor has written
OKRecords(n) ==
  Cardinality({k \in 1..Len(trace) : trace[k] = <<n, "OK">>})
    + Cardinality({k \in 1..Len(ftrace) : ftrace[k] = <<n, "OK">>})

\* the expression is `a >> a` or `a >> b >> a`
Cyclic ==
  /\ tokens[1] \in Registered
  /\ \/ tokens = <<tokens[1], ">>", tokens[1]>>
     \/ /\ Len(tokens) = 5
        /\ tokens[3] \in Registered
        /\ tokens = <<tokens[1], ">>", tokens[3], ">>", tokens[1]>>

\* C9: in `A >> A` and `A >> B >> A` the second execution of A never
\* begins: A is executed at most once, at most one A:OK record is written,
\* and a run whose nodes all succeeded returns no boolean.
C9_CycleDetected ==
  (tokens # << >> /\ Cyclic) =>
    /\ NameCalls(tokens[1]) <= 1
    /\ OKRecords(tokens[1]) <= 1
    /\ Returned => \E k \in 1..Len(hist) : hist[k].ev = "ret" /\ hist[k].val = "F"

\* C10: a token vector that is no sentence of the grammar never has a node
\* executed or a trace record written, and its run never returns a boolean.
C10_ValidationTotality ==
  ~Parses(tokens) =>
    /\ hist = << >> /\ trace = << >> /\ ftrace = << >>
    /\ ~Returned

\* the expression names a bareword that is not in the registry
NamesUnknown == \E k \in 1..Len(tokens) : tokens[k] \in Unregistered

\* C11: a run of a sentence of the grammar that names an unregistered
\* bareword executes no node and returns no boolean (it ends in UnknownNode).
C11_UnknownNode ==
  (Parses(tokens) /\ NamesUnknown) => (hist = << >> /\ ~Returned)

\* how often the user function of the node at pos was called
TriesAt(pos) ==
  Cardinality({k \in 1..Len(hist) : hist[k].ev = "try" /\ hist[k].pos = pos})

\* the records the executor has written, in the sink of the evaluator in use
Sink == IF mode = "infix" THEN trace ELSE ftrace

\* the expression is the single registered node a
Single == Len(tokens) = 1 /\ tokens[1] \in Registered

\* C12: an execution of a node with retries r calls the user function at
\* least once and at most r + 1 times, exactly once when r = 0; it stops at
\* the first normal return (a returned false is not retried) and yields that
\* boolean; when all r + 1 attempts time out or raise it yields false; no
\* exception of a node body leaves the run.
C12_ExecutorAttempts ==
  /\ \A pos \in 0..(Len(tokens) - 1) :
       Tok(pos) \in Registered =>
         LET r == registry[Tok(pos)].retries IN
           /\ TriesAt(pos) <= (r + 1) * CallsAt(pos)
           /\ TriesAt(pos) >= Len(RetsAt(pos))
           /\ (r = 0 /\ ~Busy(pos)) => TriesAt(pos) = CallsAt(pos)
  /\ status = "raised" => hist = << >>
  /\ Single =>
       LET r == registry[tokens[1]].retries
           n == Len(Sink)
       IN /\ \A k \in 1..(n - 1) : Sink[k][2] # "OK"
          /\ (n > 0 /\ Sink[n][2] = "OK") => (~Busy(0) /\ TriesAt(0) = n)
          /\ Returned =>
               /\ n = TriesAt(0) /\ n >= 1 /\ n <= r + 1
               /\ Sink[n][2] = "OK" => result = (LastRet(0) = "T")
               /\ Sink[n][2] # "OK" => (n = r + 1 /\ result = FALSE)

\* C12 witness: a node with retries >= 1 whose every attempt timed out or
\* raised: r + 1 calls of the user function, the run returned false.
C12_Witness ==
  /\ Single /\ Returned /\ result = FALSE
  /\ registry[tokens[1]].retries >= 1
  /\ TriesAt(0) = registry[tokens[1]].retries + 1
  /\ \A k \in 1..Len(Sink) : Sink[k][2] # "OK"

\* how many attempts are under way: the user function was called and has
\* neither returned, raised nor timed out
InFlight ==
  Cardinality({t \in Slices :
                 /\ stack[t] # << >>
                 /\ stack[t][Len(stack[t])].pc \in
                      {"body", "susp", "woken", "setting", "wrote", "getting"}})

TotalTries == Cardinality({k \in 1..Len(hist) : hist[k].ev = "try"})

IsPrefix(p, q) == Len(p) <= Len(q) /\ SubSeq(q, 1, Len(p)) = p

\* every finished attempt has exactly one record, each record names a
\* registered node of the expression and a status of the executor, TIMEOUT
\* only for a node with a timeout and ERR only for a body that raises; an
\* execution whose attempts all timed out has retries + 1 TIMEOUT records
\* and yields false
C13_Records ==
  /\ Len(trace) + Len(ftrace) + InFlight = TotalTries
  /\ \A k \in 1..Len(Sink) :
       /\ Sink[k][1] \in Registered
       /\ \E pos \in 0..(Len(tokens) - 1) : Tok(pos) = Sink[k][1]
       /\ Sink[k][2] \in {"OK", "TIMEOUT", "ERR"}
       /\ Sink[k][2] = "TIMEOUT" => HasTimeout(registry[Sink[k][1]])
       /\ Sink[k][2] = "ERR" => registry[Sink[k][1]].raises
  /\ (Single /\ Returned /\ \A k \in 1..Len(Sink) : Sink[k][2] = "TIMEOUT") =>
       /\ Len(Sink) = registry[tokens[1]].retries + 1
       /\ result = FALSE

\* a step appends at most one record and changes none that was written
C13_AppendOnly ==
  /\ IsPrefix(trace, trace') /\ IsPrefix(ftrace, ftrace')
  /\ Len(trace') + Len(ftrace') <= Len(trace) + Len(ftrace) + 1

\* C13: every attempt of a node appends exactly one record to the trace,
\* name:OK, name:TIMEOUT or name:ERR by how the attempt ended, in the order
\* the attempts end; records written are never removed or changed; a node
\* whose body always times out leaves retries + 1 TIMEOUT records (three for
\* retries = 2) and yields false.
C13_TracePerAttempt == [](C13_Records) /\ [][C13_AppendOnly]_vars

\* C13 witness: a node with retries = 2 and a timeout has run; its three
\* attempts timed out, three TIMEOUT records were written, the run is false.
C13_Witness ==
  /\ Single /\ Returned /\ result = FALSE
  /\ registry[tokens[1]].retries = 2
  /\ Sink = <<<<tokens[1], "TIMEOUT">>, <<tokens[1], "TIMEOUT">>,
              <<tokens[1], "TIMEOUT">>>>

\* C14: a node with negative retries or a timeout of 0 is never in the
\* registry (its construction is rejected and leaves the registry as it
\* was), so no execution of a node completes without an attempt.
C14_InvalidConfigRejected ==
  /\ \A n \in Registered :
       registry[n].retries >= 0 /\ registry[n].timeout # "zero"
  /\ \A pos \in 0..(Len(tokens) - 1) :
       Tok(pos) \in Registered => Len(RetsAt(pos)) <= TriesAt(pos)

\* the expression is `( A & B ) >> C`
JoinThenC == tokens = <<"(", "A", "&", "B", ")", ">>", "C">>

\* C15: in `( A & B ) >> C`, C is executed only after both A and B have
\* completed, and the records of A and of B precede the record of C in the
\* trace (so what A and B wrote to the state is there when C reads it).
C15_JoinOrdering ==
  JoinThenC =>
    /\ CallsAt(6) > 0 => (Len(RetsAt(1)) = 1 /\ Len(RetsAt(3)) = 1)
    /\ \A k \in 1..Len(Sink) :
         Sink[k][1] = "C" =>
           /\ \E i \in 1..(k - 1) : Sink[i][1] = "A"
           /\ \E j \in 1..(k - 1) : Sink[j][1] = "B"

\* C16 as stated: for every sentence of the grammar, the tree of the
\* evaluator's lowest-precedence, rightmost-on-tie split is the parse tree of
\* the EBNF (seq over orc over cond over par over loop over atom).
C16_ParseEquivalenceEBNF ==
  Parses(tokens) =>
    EvalTree(tokens, 0, Len(tokens)) = GrammarTree("ebnf", tokens)

\* C16 amended: for every sentence of the grammar, the tree of the
\* evaluator's split is the parse tree of the grammar whose levels are the
\* tiers of the precedence table, `|` and `?` sharing one left-associative
\* level; `A ? B | C` is split as the EBNF parses it, `A | B ? C` is split
\* as `(A | B) ? C`.
C16_ParseEquivalenceTiers ==
  /\ Parses(tokens) =>
       EvalTree(tokens, 0, Len(tokens)) = GrammarTree("tiers", tokens)
  /\ tokens = <<"A", "?", "B", "|", "C">> =>
       EvalTree(tokens, 0, 5) = GrammarTree("ebnf", tokens)
  /\ tokens = <<"A", "|", "B", "?", "C">> =>
       EvalTree(tokens, 0, 5) = <<"(", "(", "A", "|", "B", ")", "?", "C", ")">>

\* C16 witness: `A | B ? C` was run, A yielded true, B was skipped and C
\* was executed: the evaluator took the condition to be `A | B`.
C16_Witness ==
  /\ tokens = <<"A", "|", "B", "?", "C">> /\ Returned
  /\ LastRet(0) = "T" /\ CallsAt(2) = 0 /\ CallsAt(4) = 1

\* the quickstart expression `F >> (V ? P | E)`, with A, B, C, D for
\* fetch, validate, process and error
Quickstart == tokens = <<"A", ">>", "(", "B", "?", "C", "|", "D", ")">>

\* C17: in `F >> (V ? P | E)` no node is executed twice; E is executed
\* only after `V ? P` yielded false (V false, or V true and P false) and a
\* finished run has executed E iff `V ? P` yielded false; when every node
\* succeeds the run returns true, having executed F, V, P once each in that
\* order, with the records F:OK, V:OK, P:OK and none of E.
C17_Quickstart ==
  Quickstart =>
    /\ \A pos \in {0, 3, 5, 7} : CallsAt(pos) <= 1
    /\ CallsAt(7) = 1 =>
         (LastRet(3) = "F" \/ (LastRet(3) = "T" /\ LastRet(5) = "F"))
    /\ CallsAt(5) = 1 => LastRet(3) = "T"
    /\ Returned =>
         /\ CallsAt(7) = 1 <=> ~(LastRet(3) = "T" /\ LastRet(5) = "T")
         /\ AllSucceeded =>
              /\ result = TRUE
              /\ CallSeq = <<0, 3, 5>>
              /\ Sink = <<<<"A", "OK">>, <<"B", "OK">>, <<"C", "OK">>>>

\* C17 witness: the quickstart expression was run with every node
\* succeeding: true, after F, V, P and without E.
C17_Witness ==
  /\ Quickstart /\ Returned /\ AllSucceeded
  /\ result = TRUE /\ CallSeq = <<0, 3, 5>> /\ CallsAt(7) = 0

\* the self-correction loop `generator <5> reviewer`
SelfCorrection == tokens = <<"G", "<5>", "R">>

\* State.get("count", 0) as the caller of run reads it afterwards
Counter == StateGet(data, "count", 0)

\* C18 as stated: a finished run of `generator <5> reviewer` returned
\* true, executed reviewer exactly 3 times and left the counter at 3.
C18_SelfCorrectionThree ==
  (SelfCorrection /\ Returned) =>
    (result = TRUE /\ CallsAt(2) = 3 /\ Counter = 3)

\* C18 amended: reviewer is never executed more than twice and the counter
\* never passes 2; a finished run of `generator <5> reviewer` returned true,
\* executed generator and reviewer exactly 2 times each (reviewer yielding
\* false, then true) and left the counter at 2.
C18_SelfCorrectionTwo ==
  SelfCorrection =>
    /\ CallsAt(2) <= 2 /\ Counter <= 2
    /\ Returned =>
         /\ result = TRUE
         /\ CallsAt(0) = 2 /\ CallsAt(2) = 2 /\ Counter = 2
         /\ RetsAt(2) = <<Ev("ret", 2, "F"), Ev("ret", 2, "T")>>

\* C18 witness: the loop has finished with true after the reviewer's
\* second execution.
C18_Witness ==
  SelfCorrection /\ Returned /\ result = TRUE /\ CallsAt(2) = 2 /\ Counter = 2

\* the value of the last set("k", .) completed before the k-th event, or
\* "none" (the default of get) when there is none
LastSetBefore(k) ==
  LET sets == {j \in 1..(k - 1) : hist[j].ev = "set"}
  IN IF sets = {} THEN "none"
     ELSE hist[CHOOSE j \in sets : \A i \in sets : i <= j].val

\* the tasks inside `async with self._lock` or the access it guards
InCritical ==
  {t \in Slices : /\ stack[t] # << >>
                  /\ stack[t][Len(stack[t])].pc \in {"setting", "getting"}}

\* C19: every get("k") returns the value of the most recent completed
\* set("k", .), or the default when there is none; so the get of a task
\* after its own set returns what it wrote unless another task's set
\* completed in between. At most one task is inside a get or set at a time,
\* it is the one holding the event loop, a thread_safe State's lock is held
\* by exactly that task, and no task ever finds the lock taken.
C19_StateConsistency ==
  /\ \A k \in 1..Len(hist) :
       hist[k].ev = "get" =>
         /\ hist[k].val = LastSetBefore(k)
         /\ \/ hist[k].val = Tok(hist[k].pos)
            \/ \E j \in 1..(k - 1), i \in 1..(k - 1) :
                 /\ i < j
                 /\ hist[i].ev = "set" /\ hist[i].pos = hist[k].pos
                 /\ hist[j].ev = "set" /\ hist[j].pos # hist[k].pos
  /\ "k" \in DOMAIN data => data["k"] = LastSetBefore(Len(hist) + 1)
  /\ Cardinality(InCritical) <= 1
  /\ \A t \in InCritical : cur = t /\ (thread_safe => lock = t)
  /\ InCritical = {} => lock = NoTask
  /\ ~thread_safe => lock = NoTask

\* C19 witness: under a thread_safe State the two branches of `W & X` ran
\* concurrently and a get returned what the other branch had set in between.
C19_Witness ==
  /\ thread_safe /\ Returned
  /\ tokens = <<"W", "&", "X">>
  /\ \E k \in 1..Len(hist) : hist[k].ev = "get" /\ hist[k].val # Tok(hist[k].pos)
  /\ \E k \in 1..Len(hist) : hist[k].ev = "get" /\ hist[k].val = Tok(hist[k].pos)

\* the two groupings of a sequence of three nodes
SeqRight == tokens = <<"A", ">>", "(", "B", ">>", "C", ")">>
SeqLeft == tokens = <<"(", "A", ">>", "B", ")", ">>", "C">>

\* the names of the nodes executed, in the order of their calls
NameSeq == [k \in 1..Len(CallSeq) |-> Tok(CallSeq[k])]

\* C20: in `A >> (B >> C)` and in `(A >> B) >> C` alike, as long as every
\* node succeeds the nodes are executed in the order A, B, C, each at most
\* once, and a finished run has executed exactly A, B, C and returned true:
\* the two groupings give the same result and the same executions.
C20_SeqAssociative ==
  ((SeqRight \/ SeqLeft) /\ AllSucceeded) =>
    /\ IsPrefix(NameSeq, <<"A", "B", "C">>)
    /\ Returned => (result = TRUE /\ NameSeq = <<"A", "B", "C">>)

\* C20 witness: the left-grouped sequence has finished with true after A,
\* B, C, every node having succeeded.
C20_Witness ==
  /\ SeqLeft /\ Returned /\ AllSucceeded
  /\ result = TRUE /\ NameSeq = <<"A", "B", "C">>

\* q repeated n times
RECURSIVE Repeat(_, _)
Repeat(q, n) == IF n = 0 THEN << >> ELSE q \o Repeat(q, n - 1)

\* how often name n occurs in the sequence q
Count(q, n) == Cardinality({k \in 1..Len(q) : q[k] = n})

\* what evaluator m makes of the slice [s, e) when every node named n
\* returns out[n] at its first attempt: the boolean returned and the names of
\* the nodes executed, in the order of the evaluator's recursion
RECURSIVE Denote(_, _, _, _, _)
Denote(m, toks, s, e, out) ==
  IF s >= e THEN [val |-> FALSE, calls |-> << >>]
  ELSE IF e - s = 1
    THEN IF toks[s + 1] \in DOMAIN out
           THEN [val |-> out[toks[s + 1]], calls |-> <<toks[s + 1]>>]
           ELSE [val |-> FALSE, calls |-> << >>]
  ELSE LET i == FindOp(toks, s, e) IN
    IF i = -1 THEN Denote(m, toks, s + 1, e - 1, out)
    ELSE LET op == toks[i + 1]
             l == Denote(m, toks, s, i, out)
             r == Denote(m, toks, i + 1, e, out)
         IN IF IsLoop(op)
              THEN IF LoopCount(op) = 0
                     THEN [val |-> LoopValue(m, FALSE), calls |-> << >>]
                   ELSE IF LoopBreaksOnLeft(m, l.val)
                     THEN [val |-> LoopValue(m, FALSE), calls |-> l.calls]
                   ELSE [val |-> LoopValue(m, r.val),
                         calls |-> Repeat(l.calls \o r.calls,
                                          IF r.val THEN 1 ELSE LoopCount(op))]
            ELSE IF op = "&" /\ Gathers(m)
              THEN [val |-> l.val /\ r.val, calls |-> l.calls \o r.calls]
            ELSE IF NeedRight(op, l.val)
              THEN [val |-> r.val, calls |-> l.calls \o r.calls]
            ELSE [val |-> SkipValue(op, l.val), calls |-> l.calls]

\* every name of the expression is unregistered or a node whose function
\* just returns a boolean
OverFree == \A k \in 1..Len(tokens) : tokens[k] \notin Scripted

\* C21: for the token vector at hand and every assignment of outcomes to
\* the nodes, Flow._eval_infix and TracingFlow._eval_traced return the same
\* boolean and execute every node equally often, and in the same order when
\* the expression has no `&`.
C21_EvaluatorEquivalence ==
  OverFree =>
    \A out \in [Free -> BOOLEAN] :
      LET a == Denote("infix", tokens, 0, Len(tokens), out)
          b == Denote("traced", tokens, 0, Len(tokens), out)
      IN /\ a.val = b.val
         /\ \A n \in Free : Count(a.calls, n) = Count(b.calls, n)
         /\ (\A k \in 1..Len(tokens) : tokens[k] # "&") => a.calls = b.calls

\* C22: the tokens of str(expr) of every expression built with the
\* Node/Expr operators are split by the evaluator into the tree of the
\* Python expression that built it.
C22_BuilderPreservesStructure ==
  ~expr.isNode => EvalTree(expr.str, 0, Len(expr.str)) = expr.tree

\* the product of the counts of the loops that enclose token position pos in
\* the evaluator's recursion over the slice [s, e)
RECURSIVE LoopProduct(_, _, _, _)
LoopProduct(toks, s, e, pos) ==
  IF e - s <= 1 THEN 1
  ELSE LET i == FindOp(toks, s, e) IN
    IF i = -1 THEN LoopProduct(toks, s + 1, e - 1, pos)
    ELSE LET inner == IF pos < i THEN LoopProduct(toks, s, i, pos)
                                 ELSE LoopProduct(toks, i + 1, e, pos)
         IN IF IsLoop(toks[i + 1]) THEN LoopCount(toks[i + 1]) * inner ELSE inner

\* every call of the evaluator is on a slice inside its caller's and
\* strictly shorter, and the slices of gathered tasks are inside the
\* gathering call's and strictly shorter
SlicesShrink ==
  \A t \in Slices :
    /\ \A k \in 2..Len(stack[t]) :
         /\ stack[t][k - 1].s <= stack[t][k].s /\ stack[t][k].e <= stack[t][k - 1].e
         /\ stack[t][k].e - stack[t][k].s < stack[t][k - 1].e - stack[t][k - 1].s
    /\ (stack[t] # << >> /\ tparent[t] # NoTask /\ stack[tparent[t]] # << >>) =>
         LET g == stack[tparent[t]][Len(stack[tparent[t]])] IN
           /\ g.s <= stack[t][1].s /\ stack[t][1].e <= g.e
           /\ stack[t][1].e - stack[t][1].s < g.e - g.s

\* no node occurrence is attempted more often than retries + 1 times the
\* product of the counts of the loops around it
AttemptsBounded ==
  \A pos \in 0..(Len(tokens) - 1) :
    Tok(pos) \in Registered =>
      TriesAt(pos) <= (registry[Tok(pos)].retries + 1)
                        * LoopProduct(tokens, 0, Len(tokens), pos)

Finished == status \in {"returned", "raised"}

\* C23: every run, of a well-formed token vector or not, eventually
\* finishes (returns a boolean or raises) when the node bodies come to an
\* end; every recursive call is on a strictly shorter slice; and each node
\* occurrence is attempted at most (retries + 1) times the product of the
\* loop counts enclosing it.
C23_Termination == <>Finished /\ [](SlicesShrink /\ AttemptsBounded)

\* C23 witness: `( A & B ) <2> B` has finished after both iterations, A
\* and the right-hand B each attempted as often as the loop count allows.
C23_Witness ==
  /\ tokens = <<"(", "A", "&", "B", ")", "<2>", "B">>
  /\ Returned /\ TriesAt(1) = 2 /\ TriesAt(6) = 2

\* the keys of the State that the body of node n sets
WrittenBy(n) ==
  IF n = "G" THEN {"count", "content"}
  ELSE IF n \in Writers THEN {"k"}
  ELSE {}

\* C24: under the tracing evaluator State.trace stays as it was (empty),
\* every finished attempt has its record in the flow's own trace list, and
\* the State holds no key other than those set by the body of a node that
\* was attempted.
C24_SinkSeparation ==
  mode = "traced" =>
    /\ trace = << >>
    /\ Len(ftrace) + InFlight = TotalTries
    /\ \A key \in DOMAIN data :
         \E pos \in 0..(Len(tokens) - 1) :
           /\ Tok(pos) \in Registered
           /\ key \in WrittenBy(Tok(pos)) /\ TriesAt(pos) > 0

\* C24 witness: the tracing evaluator has finished `generator <5> reviewer`:
\* four records in the flow's trace list, none in State.trace, and the
\* generator's keys in the State.
C24_Witness ==
  /\ mode = "traced" /\ SelfCorrection /\ Returned
  /\ Len(ftrace) = 4 /\ trace = << >>
  /\ DOMAIN data = {"count", "content"}

====
